---- MODULE Spec2Model ----
(***************************************************************************)
(* RistrettoHash (src/src/lib.rs): an incremental multiset hash.  Each     *)
(* element is hashed to a 64-byte digest, mapped to a point of a           *)
(* prime-order group, scaled by its multiplicity and added to `acc`.        *)
(*                                                                         *)
(* The two external primitives are modelled by their contracts:            *)
(*  - the wide hash H is collision free: its state is the bytes absorbed   *)
(*    so far and its output is an injective numbering of them;             *)
(*  - the group is the free module over Z_GroupOrder generated by the      *)
(*    points from_hash yields (no relation between them is known), so an   *)
(*    equality of this model holds in the Ristretto group as well.         *)
(* GroupOrder and U64Bits are the group's order and the width of u64,      *)
(* scaled down so that 2^U64Bits < GroupOrder, as 2^64 < 2^252.            *)
(***************************************************************************)
EXTENDS Integers, Sequences, FiniteSets, TLC

\* ---- bounds of the model
MaxBytes == 2        \* most bytes fed to an instance between two resets
MaxLog == 2          \* most elements committed between two resets
MaxChunks == 3       \* most update calls a scripted element is split into

\* ---- program constants (scaled)
U64Bits == 2         \* multiplicity: u64
GroupOrder == 5      \* order of the Ristretto group (a prime)

Bytes == {1, 2}

RECURSIVE Pow2(_)
Pow2(n) == IF n = 0 THEN 1 ELSE 2 * Pow2(n - 1)

U64Max == Pow2(U64Bits) - 1

U64 == 0 .. U64Max

RECURSIVE StringsOfLen(_)
StringsOfLen(n) ==
  IF n = 0 THEN {<<>>}
  ELSE {Append(s, b) : s \in StringsOfLen(n - 1), b \in Bytes}

StringsUpTo(n) == UNION {StringsOfLen(k) : k \in 0 .. n}

ByteStrings == StringsUpTo(MaxBytes)

\* ---- the wide hash H: Digest<OutputSize = U64> + Default
HashDefault == <<>>

HashUpdate(h, data) == h \o data

HashReset(h) == <<>>

\* the 64-byte output: an injective numbering of the absorbed bytes
RECURSIVE WideHash(_)
WideHash(h) ==
  IF h = <<>> THEN 0 ELSE Head(h) + 2 * WideHash(Tail(h))

MaxDigest == Pow2(MaxBytes + 1) - 2

Digests == 0 .. MaxDigest

\* ---- the group: RistrettoPoint and Scalar
Scalars == 0 .. (GroupOrder - 1)

Points == [Digests -> Scalars]

\* RistrettoPoint::default(): the identity
Identity == [d \in Digests |-> 0]

\* RistrettoPoint::from_uniform_bytes: one independent generator per digest
FromUniformBytes(d) == [e \in Digests |-> IF e = d THEN 1 ELSE 0]

\* RistrettoPoint::from_hash(old)
from_hash(h) == FromUniformBytes(WideHash(h))

\* Scalar::from of the multiplicity cut to its low bit
ScalarFrom_truncated(m) == m % 2

\* Scalar::from of whether the multiplicity is non-zero
ScalarFrom_flag(m) == IF m = 0 THEN 0 ELSE 1

\* Scalar::from(multiplicity: u64)
ScalarFrom(m) == m % GroupOrder

ScalarMul(s, P) == [d \in Digests |-> (s * P[d]) % GroupOrder]

PointAdd(P, Q) == [d \in Digests |-> (P[d] + Q[d]) % GroupOrder]

\* acc.compress().as_bytes(): the canonical encoding, one symbol per coordinate
compress(P) == [k \in 1 .. (MaxDigest + 1) |-> P[k - 1]]

\* CompressedRistretto::decompress
decompress(b) == [d \in Digests |-> b[d + 1]]

\* ---- what a call returns
NoDigest == <<>>

Returned(op) == [op |-> op, res |-> "ok", digest |-> NoDigest]

Panicked(op) == [op |-> op, res |-> "panic", digest |-> NoDigest]

Output(op, P) == [op |-> op, res |-> "digest", digest |-> compress(P)]

Element(data, multiplicity) == [data |-> data, mult |-> multiplicity]

\* ---- struct RistrettoHash<H> { hash, updating, acc }, with what the model
\* records about an instance:
\*   live  not yet moved into finalize_into
\*   fed   the bytes the caller fed for the element not yet committed
\*   log   the elements committed since creation or the last reset
\*   out   the last call and what it returned
\*   pre   the fields as they were when the last call was made
\*   sinceCommit  an update was made since the last commit
\*   sinceClear   an update was made since the last commit or reset
Fields(s) == [hash |-> s.hash, updating |-> s.updating, acc |-> s.acc]

Default ==
  [hash |-> HashDefault, updating |-> FALSE, acc |-> Identity,
   live |-> TRUE, fed |-> <<>>, log |-> <<>>, out |-> Returned("default"),
   pre |-> [hash |-> HashDefault, updating |-> FALSE, acc |-> Identity],
   sinceCommit |-> FALSE, sinceClear |-> FALSE]

\* end_update with `=` for `+=`
end_update_overwrite(s, multiplicity) ==
  [s EXCEPT
     !.updating = FALSE,
     !.hash = HashDefault,
     !.acc = ScalarMul(ScalarFrom(multiplicity), from_hash(s.hash)),
     !.log = Append(s.log, Element(s.fed, multiplicity)),
     !.fed = <<>>,
     !.out = Returned("end_update")]

\* end_update that adds h_point without scaling it
end_update_unscaled(s, multiplicity) ==
  [s EXCEPT
     !.updating = FALSE,
     !.hash = HashDefault,
     !.acc = PointAdd(s.acc, from_hash(s.hash)),
     !.log = Append(s.log, Element(s.fed, multiplicity)),
     !.fed = <<>>,
     !.out = Returned("end_update")]

\* end_update that hashes a copy and keeps the old hash state
end_update_keeps_hash(s, multiplicity) ==
  [s EXCEPT
     !.updating = FALSE,
     !.acc = PointAdd(s.acc, ScalarMul(ScalarFrom(multiplicity), from_hash(s.hash))),
     !.log = Append(s.log, Element(s.fed, multiplicity)),
     !.fed = <<>>,
     !.out = Returned("end_update")]

\* end_update that commits nothing when no update was made
end_update_needs_update(s, multiplicity) ==
  [s EXCEPT
     !.updating = FALSE,
     !.hash = HashDefault,
     !.acc = IF s.updating
             THEN PointAdd(s.acc, ScalarMul(ScalarFrom(multiplicity), from_hash(s.hash)))
             ELSE s.acc,
     !.log = Append(s.log, Element(s.fed, multiplicity)),
     !.fed = <<>>,
     !.out = Returned("end_update")]

\* end_update without self.updating = false
end_update_keeps_flag(s, multiplicity) ==
  [s EXCEPT
     !.hash = HashDefault,
     !.acc = PointAdd(s.acc, ScalarMul(ScalarFrom(multiplicity), from_hash(s.hash))),
     !.log = Append(s.log, Element(s.fed, multiplicity)),
     !.fed = <<>>,
     !.out = Returned("end_update")]

\* pub fn end_update(&mut self, multiplicity: u64)
end_update(s, multiplicity) ==
  [s EXCEPT
     !.updating = FALSE,
     !.hash = HashDefault,
     !.acc = PointAdd(s.acc, ScalarMul(ScalarFrom(multiplicity), from_hash(s.hash))),
     !.log = Append(s.log, Element(s.fed, multiplicity)),
     !.fed = <<>>,
     !.out = Returned("end_update")]

\* add without the check of `updating`
add_unchecked(s, data, multiplicity) ==
  [end_update([s EXCEPT !.hash = HashUpdate(s.hash, data),
                        !.fed = s.fed \o data],
              multiplicity)
     EXCEPT !.out = Returned("add")]

\* add without self.hash.update(data)
add_drops_data(s, data, multiplicity) ==
  IF s.updating
  THEN [s EXCEPT !.out = Panicked("add")]
  ELSE [end_update([s EXCEPT !.fed = s.fed \o data], multiplicity)
          EXCEPT !.out = Returned("add")]

\* add that feeds the hash before it checks `updating`
add_feeds_first(s, data, multiplicity) ==
  IF s.updating
  THEN [s EXCEPT !.hash = HashUpdate(s.hash, data), !.out = Panicked("add")]
  ELSE [end_update([s EXCEPT !.hash = HashUpdate(s.hash, data),
                             !.fed = s.fed \o data],
                   multiplicity)
          EXCEPT !.out = Returned("add")]

\* pub fn add(&mut self, data, multiplicity: u64)
add(s, data, multiplicity) ==
  IF s.updating
  THEN [s EXCEPT !.out = Panicked("add")]
  ELSE [end_update([s EXCEPT !.hash = HashUpdate(s.hash, data),
                             !.fed = s.fed \o data],
                   multiplicity)
          EXCEPT !.out = Returned("add")]

\* reset without self.hash.reset()
reset_keeps_hash(s) ==
  [s EXCEPT
     !.updating = FALSE,
     !.acc = Identity,
     !.log = <<>>,
     !.fed = <<>>,
     !.out = Returned("reset")]

\* reset without self.acc = RistrettoPoint::default()
reset_keeps_acc(s) ==
  [s EXCEPT
     !.hash = HashReset(s.hash),
     !.updating = FALSE,
     !.log = <<>>,
     !.fed = <<>>,
     !.out = Returned("reset")]

\* reset without self.updating = false
reset_keeps_updating(s) ==
  [s EXCEPT
     !.hash = HashReset(s.hash),
     !.acc = Identity,
     !.log = <<>>,
     !.fed = <<>>,
     !.out = Returned("reset")]

\* fn reset(&mut self)
reset(s) ==
  [s EXCEPT
     !.hash = HashReset(s.hash),
     !.updating = FALSE,
     !.acc = Identity,
     !.log = <<>>,
     !.fed = <<>>,
     !.out = Returned("reset")]

\* finalize_into with the body of finalize_into_reset
finalize_into_resets(s) ==
  IF s.updating
  THEN [s EXCEPT !.live = FALSE, !.out = Panicked("finalize_into")]
  ELSE [reset(s) EXCEPT !.live = FALSE, !.out = Output("finalize_into", s.acc)]

\* fn finalize_into(self, out): self is moved in and dropped
finalize_into(s) ==
  IF s.updating
  THEN [s EXCEPT !.live = FALSE, !.out = Panicked("finalize_into")]
  ELSE [s EXCEPT !.live = FALSE, !.out = Output("finalize_into", s.acc)]

\* finalize_into_reset without self.reset()
finalize_into_reset_no_reset(s) ==
  IF s.updating
  THEN [s EXCEPT !.out = Panicked("finalize_into_reset")]
  ELSE [s EXCEPT !.out = Output("finalize_into_reset", s.acc)]

\* finalize_into_reset without the check of `updating`
finalize_into_reset_unchecked(s) ==
  [reset(s) EXCEPT !.out = Output("finalize_into_reset", s.acc)]

\* fn finalize_into_reset(&mut self, out)
finalize_into_reset(s) ==
  IF s.updating
  THEN [s EXCEPT !.out = Panicked("finalize_into_reset")]
  ELSE [reset(s) EXCEPT !.out = Output("finalize_into_reset", s.acc)]

\* update that starts the hash afresh at every call
update_restarts(s, data) ==
  [s EXCEPT
     !.updating = TRUE,
     !.hash = HashUpdate(HashDefault, data),
     !.fed = s.fed \o data,
     !.out = Returned("update")]

\* update without self.updating = true
update_no_flag(s, data) ==
  [s EXCEPT
     !.hash = HashUpdate(s.hash, data),
     !.fed = s.fed \o data,
     !.out = Returned("update")]

\* update that sets `updating` only when it is given bytes
update_flag_if_bytes(s, data) ==
  [s EXCEPT
     !.updating = s.updating \/ data # <<>>,
     !.hash = HashUpdate(s.hash, data),
     !.fed = s.fed \o data,
     !.out = Returned("update")]

\* fn update(&mut self, data)
update(s, data) ==
  [s EXCEPT
     !.updating = TRUE,
     !.hash = HashUpdate(s.hash, data),
     !.fed = s.fed \o data,
     !.out = Returned("update")]

\* ---- calls
AddCall(data, m) == [op |-> "add", data |-> data, mult |-> m]

EndUpdateCall(m) == [op |-> "end_update", data |-> <<>>, mult |-> m]

UpdateCall(data) == [op |-> "update", data |-> data, mult |-> 0]

FinalizeCall == [op |-> "finalize_into", data |-> <<>>, mult |-> 0]

FinalizeResetCall == [op |-> "finalize_into_reset", data |-> <<>>, mult |-> 0]

ResetCall == [op |-> "reset", data |-> <<>>, mult |-> 0]

Dispatch(s, c) ==
  CASE c.op = "add" -> add(s, c.data, c.mult)
    [] c.op = "end_update" -> end_update(s, c.mult)
    [] c.op = "update" -> update(s, c.data)
    [] c.op = "finalize_into" -> finalize_into(s)
    [] c.op = "finalize_into_reset" -> finalize_into_reset(s)
    [] c.op = "reset" -> reset(s)

\* call c, which left the instance as t, committed an element: end_update,
\* or an add that returned
Commits(c, t) ==
  c.op = "end_update" \/ (c.op = "add" /\ t.out.res = "ok")

\* call c, which left the instance as t, reset it: reset, or a
\* finalize_into_reset that returned
Resets(c, t) ==
  c.op = "reset" \/ (c.op = "finalize_into_reset" /\ t.out.res = "digest")

\* call c on instance s
Call(s, c) ==
  LET t == Dispatch(s, c)
  IN [t EXCEPT
        !.pre = Fields(s),
        !.sinceCommit = IF c.op = "update" THEN TRUE
                        ELSE IF Commits(c, t) THEN FALSE
                        ELSE s.sinceCommit,
        !.sinceClear = IF c.op = "update" THEN TRUE
                       ELSE IF Commits(c, t) \/ Resets(c, t) THEN FALSE
                       ELSE s.sinceClear]

RECURSIVE BytesLogged(_)
BytesLogged(l) ==
  IF l = <<>> THEN 0 ELSE Len(Head(l).data) + BytesLogged(Tail(l))

\* the model's bounds: a call is made on a live instance, and only if it
\* keeps the bytes absorbed and the elements committed within the bounds
Within(s, c) ==
  /\ s.live
  /\ c.op = "end_update" \/ (c.op = "add" /\ ~s.updating) =>
       Len(s.log) < MaxLog
  /\ c.op = "update" \/ (c.op = "add" /\ ~s.updating) =>
       Len(s.fed) + Len(c.data) + BytesLogged(s.log) <= MaxBytes

VARIABLES
  hashes,    \* hashes[i]: instance i
  mode,      \* "free", "mirror", or the scenario of a scripted run
  script,    \* script[i]: the calls a scripted run still makes on i
  plan       \* plan[i]: the script instance i started with

vars == <<hashes, mode, script, plan>>

\* the instances constructed in this run
Insts == DOMAIN hashes

NoScript == [i \in {1, 2} |-> <<>>]

\* ---- Spec: any calls, in any order, on instance 1
Init ==
  /\ hashes = [i \in {1, 2} |-> Default]
  /\ mode = "free"
  /\ script = NoScript
  /\ plan = NoScript

\* in mirror mode every call is made on instances 1 and 2 alike
Targets == IF mode = "mirror" THEN {1, 2} ELSE {1}

Callable(c) ==
  /\ mode \in {"free", "mirror"}
  /\ \A i \in Targets : Within(hashes[i], c)

After(c) ==
  [i \in Insts |-> IF i \in Targets THEN Call(hashes[i], c) ELSE hashes[i]]

Add ==
  \E data \in ByteStrings, m \in U64 :
    /\ Callable(AddCall(data, m))
    /\ hashes' = After(AddCall(data, m))
    /\ UNCHANGED <<mode, script, plan>>

EndUpdate ==
  \E m \in U64 :
    /\ Callable(EndUpdateCall(m))
    /\ hashes' = After(EndUpdateCall(m))
    /\ UNCHANGED <<mode, script, plan>>

Update ==
  \E data \in ByteStrings :
    /\ Callable(UpdateCall(data))
    /\ hashes' = After(UpdateCall(data))
    /\ UNCHANGED <<mode, script, plan>>

Finalize ==
  /\ Callable(FinalizeCall)
  /\ hashes' = After(FinalizeCall)
  /\ UNCHANGED <<mode, script, plan>>

FinalizeReset ==
  /\ Callable(FinalizeResetCall)
  /\ hashes' = After(FinalizeResetCall)
  /\ UNCHANGED <<mode, script, plan>>

Reset ==
  /\ Callable(ResetCall)
  /\ hashes' = After(ResetCall)
  /\ UNCHANGED <<mode, script, plan>>

Next == Add \/ EndUpdate \/ Update \/ Finalize \/ FinalizeReset \/ Reset

Spec == Init /\ [][Next]_vars

\* ---- SpecReset: any calls on instance 1, then finalize_into_reset from Idle;
\* from there on every call is made on instance 1 and on instance 2, which is
\* freshly constructed
ResetPoint ==
  /\ mode = "free"
  /\ hashes[1].live
  /\ ~hashes[1].updating
  /\ hashes' = [hashes EXCEPT ![1] = Call(hashes[1], FinalizeResetCall)]
  /\ mode' = "mirror"
  /\ UNCHANGED <<script, plan>>

NextReset ==
  Add \/ EndUpdate \/ Update \/ Finalize \/ FinalizeReset \/ Reset \/ ResetPoint

SpecReset == Init /\ [][NextReset]_vars

\* ---- SpecPair: scripted runs on fresh instances, as in the tests
Elements == {Element(d, m) : d \in ByteStrings, m \in U64}

\* the sequences of at most MaxLog elements holding at most MaxBytes bytes
ElemSeqs ==
  UNION {{l \in [1 .. n -> Elements] : BytesLogged(l) <= MaxBytes} : n \in 0 .. MaxLog}

Perms(n) == {p \in [1 .. n -> 1 .. n] : \A j, k \in 1 .. n : p[j] = p[k] => j = k}

Permuted(l, p) == [k \in 1 .. Len(l) |-> l[p[k]]]

AddsOf(l) == [k \in 1 .. Len(l) |-> AddCall(l[k].data, l[k].mult)]

UpdatesOf(chunks) == [k \in 1 .. Len(chunks) |-> UpdateCall(chunks[k])]

RECURSIVE Concat(_)
Concat(chunks) ==
  IF chunks = <<>> THEN <<>> ELSE Head(chunks) \o Concat(Tail(chunks))

\* the ways to feed one element in at most MaxChunks update calls
Chunkings ==
  UNION {{c \in [1 .. n -> ByteStrings] : Len(Concat(c)) <= MaxBytes} : n \in 0 .. MaxChunks}

\* a + b as the caller computes it on u64: the sum when it fits; otherwise the
\* wrapped sum (release build), or -1 for the overflow panic of a debug build
U64Sums(a, b) ==
  IF a + b <= U64Max THEN {a + b} ELSE {(a + b) % Pow2(U64Bits), -1}

\* the element e joined to the multiset l: its multiplicity is added to that
\* of the element of l with the same bytes, if there is one
Joined(l, e) ==
  IF \E k \in 1 .. Len(l) : l[k].data = e.data
  THEN [k \in 1 .. Len(l) |->
          IF l[k].data = e.data THEN Element(e.data, l[k].mult + e.mult) ELSE l[k]]
  ELSE Append(l, e)

RECURSIVE Merged(_)
\* the elements of l, each once, with its multiplicities summed
Merged(l) ==
  IF l = <<>> THEN <<>>
  ELSE Joined(Merged(SubSeq(l, 1, Len(l) - 1)), l[Len(l)])

Scripted(name, p1, p2, p3) ==
  /\ hashes = [i \in {1, 2, 3} |-> Default]
  /\ mode = name
  /\ plan = (1 :> p1) @@ (2 :> p2) @@ (3 :> p3)
  /\ script = plan

\* test_hash_commutative: the same adds in two orders
InitOrder ==
  \E l \in ElemSeqs : \E p \in Perms(Len(l)) :
    Scripted("order",
             AddsOf(l) \o <<FinalizeCall>>,
             AddsOf(Permuted(l, p)) \o <<FinalizeCall>>,
             <<>>)

\* test_add_with_multiplicity: add(x, a + b) against add(x, a); add(x, b)
InitAdditive ==
  \E x \in ByteStrings, a \in U64, b \in U64 : \E sum \in U64Sums(a, b) :
    /\ 2 * Len(x) <= MaxBytes
    /\ Scripted("additive",
                IF sum < 0 THEN <<>> ELSE <<AddCall(x, sum), FinalizeCall>>,
                <<AddCall(x, a), AddCall(x, b), FinalizeCall>>,
                <<>>)

\* test_partial_updates: one add against the same bytes fed in chunks
InitSplit ==
  \E c \in Chunkings, m \in U64 :
    Scripted("split",
             <<AddCall(Concat(c), m), FinalizeCall>>,
             UpdatesOf(c) \o <<EndUpdateCall(m), FinalizeCall>>,
             <<>>)

\* two multisets on instances 1 and 2, their union on instance 3
InitMerge ==
  \E l \in ElemSeqs : \E k \in 0 .. Len(l) :
    \E u \in {l} \cup {v \in {Merged(l)} : \A j \in 1 .. Len(v) : v[j].mult <= U64Max} :
      Scripted("merge",
               AddsOf(SubSeq(l, 1, k)) \o <<FinalizeCall>>,
               AddsOf(SubSeq(l, k + 1, Len(l))) \o <<FinalizeCall>>,
               AddsOf(u) \o <<FinalizeCall>>)

\* the integer n handed to a u64 parameter (n as u64)
AsU64(n) == n % Pow2(U64Bits)

\* an element added with a multiplicity congruent, modulo the group order,
\* to the multiplicity m it is added with on instance 2; instance 3 adds nothing
InitModulus ==
  \E x \in ByteStrings, m \in U64, k \in {0, 1} :
    Scripted("modulus",
             <<AddCall(x, AsU64(m + k * GroupOrder)), FinalizeCall>>,
             <<AddCall(x, m), FinalizeCall>>,
             <<FinalizeCall>>)

InitPair == InitOrder \/ InitAdditive \/ InitSplit \/ InitMerge \/ InitModulus

\* the calls are made one at a time; instances share nothing, so the model
\* runs the scripts one after the other
Turn(i) == script[i] # <<>> /\ \A j \in Insts : j < i => script[j] = <<>>

Scheduled(i, op) ==
  /\ Turn(i)
  /\ Head(script[i]).op = op
  /\ Within(hashes[i], Head(script[i]))

Ran(i) == [hashes EXCEPT ![i] = Call(hashes[i], Head(script[i]))]

Rest(i) == [script EXCEPT ![i] = Tail(script[i])]

RunAdd ==
  \E i \in Insts :
    /\ Scheduled(i, "add")
    /\ hashes' = Ran(i)
    /\ script' = Rest(i)
    /\ UNCHANGED <<mode, plan>>

RunUpdate ==
  \E i \in Insts :
    /\ Scheduled(i, "update")
    /\ hashes' = Ran(i)
    /\ script' = Rest(i)
    /\ UNCHANGED <<mode, plan>>

RunEndUpdate ==
  \E i \in Insts :
    /\ Scheduled(i, "end_update")
    /\ hashes' = Ran(i)
    /\ script' = Rest(i)
    /\ UNCHANGED <<mode, plan>>

RunFinalize ==
  \E i \in Insts :
    /\ Scheduled(i, "finalize_into")
    /\ hashes' = Ran(i)
    /\ script' = Rest(i)
    /\ UNCHANGED <<mode, plan>>

NextPair == RunAdd \/ RunUpdate \/ RunEndUpdate \/ RunFinalize

SpecPair == InitPair /\ [][NextPair]_vars

Done == \A i \in Insts : script[i] = <<>>

\* every scripted call can be made within the bounds
ScriptsRun ==
  \A i \in Insts : Turn(i) => Within(hashes[i], Head(script[i]))

TypeOK ==
  \A i \in Insts :
    /\ hashes[i].acc \in Points
    /\ hashes[i].hash \in ByteStrings
    /\ hashes[i].updating \in BOOLEAN

\* ---- properties of Spec

Idle(s) == ~s.updating

Accumulating(s) == s.updating

RECURSIVE GroupSum(_)
\* the sum over the elements e of l of scalar(e.mult) * hash_to_group(wide_hash(e.data))
GroupSum(l) ==
  IF l = <<>> THEN Identity
  ELSE PointAdd(GroupSum(Tail(l)),
                ScalarMul(ScalarFrom(Head(l).mult), from_hash(Head(l).data)))

\* C4: an add made while the instance is Accumulating fails with a misuse
\* error (a panic) and leaves the accumulator as it was, whatever the bytes
\* and the multiplicity.
C4_AddMisuse ==
  \A i \in Insts :
    hashes[i].out.op = "add" /\ Accumulating(hashes[i].pre) =>
      /\ hashes[i].out = Panicked("add")
      /\ hashes[i].acc = hashes[i].pre.acc

C4_Witness ==
  \E i \in Insts :
    /\ hashes[i].out.op = "add"
    /\ Accumulating(hashes[i].pre)
    /\ hashes[i].pre.hash # <<>>
    /\ hashes[i].pre.acc # Identity

\* C5: finalize and finalize_and_reset made while the instance is
\* Accumulating fail with a misuse error, return no digest and leave the
\* accumulator as it was; finalize_and_reset does not reset.
C5_FinalizeMisuse ==
  \A i \in Insts :
    /\ hashes[i].out.op \in {"finalize_into", "finalize_into_reset"}
    /\ Accumulating(hashes[i].pre)
    => /\ hashes[i].out.res = "panic"
       /\ hashes[i].out.digest = NoDigest
       /\ Fields(hashes[i]) = hashes[i].pre

C5_Witness ==
  \E i \in Insts :
    /\ hashes[i].out.op = "finalize_into_reset"
    /\ Accumulating(hashes[i].pre)
    /\ hashes[i].pre.hash # <<>>
    /\ hashes[i].pre.acc # Identity

\* C6: whenever the instance is Idle, the accumulator is the group sum, over
\* the elements committed since creation or the last reset, of
\* scalar(multiplicity) * hash_to_group(wide_hash(bytes fed for the element)).
C6_AccumulatorInvariant ==
  \A i \in Insts :
    Idle(hashes[i]) => hashes[i].acc = GroupSum(hashes[i].log)

C6_Witness ==
  \E i \in Insts :
    /\ Idle(hashes[i])
    /\ Len(hashes[i].log) = 2
    /\ hashes[i].log[1].data # hashes[i].log[2].data
    /\ hashes[i].log[1].mult > 1
    /\ hashes[i].log[2].mult > 0
    /\ hashes[i].out.op = "end_update"
    /\ hashes[i].pre.hash # <<>>

\* C9: reset succeeds from every state, Accumulating with bytes pending
\* included, and leaves the instance as a fresh one: accumulator the
\* identity, pending hash state empty, pending_flag false.
C9_ResetUnconditional ==
  \A i \in Insts :
    hashes[i].out.op = "reset" =>
      /\ hashes[i].out.res = "ok"
      /\ Fields(hashes[i]) = Fields(Default)

C9_Witness ==
  \E i \in Insts :
    /\ hashes[i].out.op = "reset"
    /\ Accumulating(hashes[i].pre)
    /\ hashes[i].pre.hash # <<>>
    /\ hashes[i].pre.acc # Identity

\* C10 as stated: finalize leaves the instance as it was, so that it can be
\* called again and returns the same digest.
C10_RepeatedFinalize ==
  \A i \in Insts :
    hashes[i].out.op = "finalize_into" /\ Idle(hashes[i].pre) =>
      /\ hashes[i].out = Output("finalize_into", hashes[i].pre.acc)
      /\ Fields(hashes[i]) = hashes[i].pre
      /\ hashes[i].live

\* C10, amended: finalize from Idle returns the compressed accumulator and
\* writes none of accumulator, pending and pending_flag; the call consumes
\* the instance, which takes no further call.
C10_FinalizeFrame ==
  \A i \in Insts :
    hashes[i].out.op = "finalize_into" /\ Idle(hashes[i].pre) =>
      /\ hashes[i].out = Output("finalize_into", hashes[i].pre.acc)
      /\ Fields(hashes[i]) = hashes[i].pre
      /\ ~hashes[i].live

C10_Witness ==
  \E i \in Insts :
    /\ hashes[i].out.op = "finalize_into"
    /\ Idle(hashes[i].pre)
    /\ hashes[i].pre.acc # Identity

IsPrefix(p, q) == Len(p) <= Len(q) /\ SubSeq(q, 1, Len(p)) = p

\* C11: feed is valid in Idle and in Accumulating, always leaves the
\* instance Accumulating, appends to the pending hash state and leaves the
\* accumulator as it was.
C11_FeedFrame ==
  \A i \in Insts :
    hashes[i].out.op = "update" =>
      /\ hashes[i].out.res = "ok"
      /\ Accumulating(hashes[i])
      /\ hashes[i].acc = hashes[i].pre.acc
      /\ IsPrefix(hashes[i].pre.hash, hashes[i].hash)
      /\ hashes[i].hash = hashes[i].fed
      /\ hashes[i].live

C11_Witness ==
  \E i \in Insts :
    /\ hashes[i].out.op = "update"
    /\ Idle(hashes[i].pre)
    /\ hashes[i].pre.acc # Identity
    /\ hashes[i].hash # hashes[i].pre.hash

\* C12 as stated: pending_flag is true if and only if an update was made
\* since the last commit.
C12_FlagSinceCommit ==
  \A i \in Insts : hashes[i].updating <=> hashes[i].sinceCommit

\* C12, amended: pending_flag is true if and only if an update was made
\* since the last commit or reset.
C12_FlagSinceClear ==
  \A i \in Insts : hashes[i].updating <=> hashes[i].sinceClear

C12_Witness ==
  \E i \in Insts :
    /\ hashes[i].out.op = "reset"
    /\ Accumulating(hashes[i].pre)
    /\ hashes[i].sinceCommit
    /\ ~hashes[i].updating

\* C13: whenever the instance is Idle the pending hash state is that of a
\* fresh hash; commit, an add that returns, reset and a finalize_and_reset
\* that returns all leave the pending hash state empty and the instance Idle.
C13_IdleHashEmpty ==
  \A i \in Insts :
    /\ Idle(hashes[i]) => hashes[i].hash = HashDefault
    /\ \/ hashes[i].out.op \in {"end_update", "reset"}
       \/ hashes[i].out = Returned("add")
       \/ hashes[i].out.op = "finalize_into_reset" /\ hashes[i].out.res = "digest"
       => Idle(hashes[i]) /\ hashes[i].hash = HashDefault

C13_Witness ==
  \E i \in Insts :
    /\ hashes[i].out.op = "end_update"
    /\ Accumulating(hashes[i].pre)
    /\ hashes[i].pre.hash # HashDefault
    /\ Idle(hashes[i])

\* the instance as it was when the last call was made
Before(s) ==
  [s EXCEPT !.hash = s.pre.hash, !.updating = s.pre.updating, !.acc = s.pre.acc]

\* the element the last commit added
Last(s) == s.log[Len(s.log)]

\* C14: from any Idle state, add(bytes, multiplicity) returns and leaves
\* accumulator, pending hash state and pending_flag exactly as feed(bytes)
\* followed by commit(multiplicity) does from that state.
C14_AddIsFeedCommit ==
  \A i \in Insts :
    hashes[i].out.op = "add" /\ Idle(hashes[i].pre) =>
      /\ hashes[i].out = Returned("add")
      /\ Fields(hashes[i])
           = Fields(end_update(update(Before(hashes[i]), Last(hashes[i]).data),
                               Last(hashes[i]).mult))

C14_Witness ==
  \E i \in Insts :
    /\ hashes[i].out = Returned("add")
    /\ hashes[i].pre.acc # Identity
    /\ hashes[i].acc # hashes[i].pre.acc
    /\ Last(hashes[i]).data # <<>>

\* C15: commit(multiplicity) made in Idle with nothing fed is permitted: it
\* adds multiplicity * hash_to_group(wide_hash("")) to the accumulator, as
\* add("", multiplicity) does, and leaves the instance Idle.
C15_CommitEmpty ==
  \A i \in Insts :
    hashes[i].out.op = "end_update" /\ Idle(hashes[i].pre) =>
      /\ hashes[i].out.res = "ok"
      /\ Last(hashes[i]).data = <<>>
      /\ hashes[i].acc
           = PointAdd(hashes[i].pre.acc,
                      ScalarMul(ScalarFrom(Last(hashes[i]).mult), from_hash(<<>>)))
      /\ Fields(hashes[i])
           = Fields(add(Before(hashes[i]), <<>>, Last(hashes[i]).mult))
      /\ Idle(hashes[i])

C15_Witness ==
  \E i \in Insts :
    /\ hashes[i].out.op = "end_update"
    /\ Idle(hashes[i].pre)
    /\ hashes[i].pre.acc # Identity
    /\ Last(hashes[i]).mult > 0
    /\ hashes[i].acc # hashes[i].pre.acc

\* the instance is Idle, and add and finalize succeed on it
Recovered(s) ==
  /\ Idle(s)
  /\ \A m \in U64 : add(s, <<>>, m).out = Returned("add")
  /\ finalize_into(s).out.res = "digest"

\* the instance takes a call, and one commit or one reset recovers it
Recoverable(s) ==
  /\ s.live
  /\ \A m \in U64 : Recovered(end_update(s, m))
  /\ Recovered(reset(s))

\* feed, add, finalize and finalize_and_reset leave an Accumulating
\* instance Accumulating
StaysAccumulating(s) ==
  /\ s.out.op \in {"update", "add", "finalize_into", "finalize_into_reset"}
  /\ Accumulating(s.pre)
  => Accumulating(s)

\* C17 as stated: after a failed add or a failed finalize in Accumulating, one
\* commit or one reset returns the instance to Idle, where add and finalize
\* succeed; no other operation leaves Accumulating.
C17_RecoverAfterAnyFailure ==
  \A i \in Insts :
    /\ hashes[i].out.res = "panic" => Recoverable(hashes[i])
    /\ StaysAccumulating(hashes[i])

\* C17, amended: after a failed add or a failed finalize_and_reset in
\* Accumulating, one commit or one reset returns the instance to Idle, where
\* add and finalize succeed; no other operation leaves Accumulating.  A failed
\* finalize has consumed the instance, which takes no commit and no reset.
C17_RecoverAfterMisuse ==
  \A i \in Insts :
    /\ hashes[i].out \in {Panicked("add"), Panicked("finalize_into_reset")}
       => Recoverable(hashes[i])
    /\ hashes[i].out = Panicked("finalize_into") => ~hashes[i].live
    /\ StaysAccumulating(hashes[i])

C17_Witness ==
  \E i \in Insts :
    /\ hashes[i].out = Panicked("add")
    /\ Accumulating(hashes[i])
    /\ hashes[i].hash # HashDefault
    /\ hashes[i].acc # Identity
    /\ hashes[i].live

\* the fields are as before the last call, and a commit adds the element
\* made of the bytes fed before it
Untouched(s) ==
  /\ Fields(s) = s.pre
  /\ Accumulating(s)
  /\ \A m \in U64 :
       /\ Last(end_update(s, m)) = Element(s.fed, m)
       /\ end_update(s, m).acc
            = PointAdd(s.pre.acc, ScalarMul(ScalarFrom(m), from_hash(s.fed)))

\* C18 as stated: a failed add, finalize or finalize_and_reset leaves hash
\* state, flag and accumulator as they were, so that a commit that follows
\* commits exactly the bytes fed before the failed call.
C18_FailureThenCommit ==
  \A i \in Insts :
    hashes[i].out.res = "panic" => Untouched(hashes[i]) /\ hashes[i].live

\* C18, amended: a failed add, finalize or finalize_and_reset writes none of
\* hash state, flag and accumulator; after a failed add or finalize_and_reset
\* a commit that follows commits exactly the bytes fed before the failed
\* call, while a failed finalize has consumed the instance and no commit
\* can follow it.
C18_FailureWritesNothing ==
  \A i \in Insts :
    hashes[i].out.res = "panic" =>
      /\ Untouched(hashes[i])
      /\ hashes[i].live <=> hashes[i].out.op # "finalize_into"

C18_Witness ==
  \E i \in Insts :
    /\ hashes[i].out = Panicked("add")
    /\ hashes[i].live
    /\ hashes[i].fed # <<>>
    /\ hashes[i].pre.acc # Identity
    /\ hashes[i].sinceClear

\* C19: feed with an empty byte string moves the instance to Accumulating
\* although no bytes are pending: add and finalize made next fail with a
\* misuse error, and commit(m) made next gives the digest of add("", m).
C19_EmptyFeed ==
  \A i \in Insts :
    /\ hashes[i].out.op = "update"
    /\ Idle(hashes[i].pre)
    /\ hashes[i].hash = HashDefault
    => /\ Accumulating(hashes[i])
       /\ \A data \in ByteStrings, m \in U64 :
            add(hashes[i], data, m).out = Panicked("add")
       /\ finalize_into(hashes[i]).out = Panicked("finalize_into")
       /\ finalize_into_reset(hashes[i]).out = Panicked("finalize_into_reset")
       /\ \A m \in U64 :
            finalize_into(end_update(hashes[i], m)).out
              = finalize_into(add(Before(hashes[i]), <<>>, m)).out

C19_Witness ==
  \E i \in Insts :
    /\ hashes[i].out.op = "update"
    /\ Idle(hashes[i].pre)
    /\ hashes[i].hash = HashDefault
    /\ hashes[i].fed = <<>>
    /\ hashes[i].acc # Identity
    /\ hashes[i].live

\* ---- properties of SpecPair

Digest(i) == hashes[i].out.digest

GaveDigest(i) == hashes[i].out.op = "finalize_into" /\ hashes[i].out.res = "digest"

\* C1: the same (element, multiplicity) pairs added to two fresh instances
\* in two different orders finalize to the same digest.
C1_OrderIndependence ==
  mode = "order" /\ Done =>
    GaveDigest(1) /\ GaveDigest(2) /\ Digest(1) = Digest(2)

C1_Witness ==
  /\ mode = "order"
  /\ Done
  /\ Len(hashes[1].log) >= 2
  /\ hashes[1].log[1].data # hashes[1].log[2].data
  /\ hashes[1].log[1].mult # hashes[1].log[2].mult
  /\ hashes[1].log[1].mult > 0
  /\ hashes[1].log[2].mult > 0
  /\ hashes[1].log[1] = hashes[2].log[2]
  /\ GaveDigest(2)

\* C2 as stated: add(x, a + b) and add(x, a); add(x, b) finalize to the same
\* digest for all non-negative a and b.
C2_AdditiveForAll ==
  mode = "additive" /\ Done =>
    GaveDigest(1) /\ GaveDigest(2) /\ Digest(1) = Digest(2)

\* C2, amended: add(x, a + b) and add(x, a); add(x, b), each on an empty
\* accumulator, finalize to the same digest for all multiplicities a and b
\* whose sum is a u64 (a + b <= u64::MAX).
C2_AdditiveInRange ==
  /\ mode = "additive"
  /\ Done
  /\ plan[2][1].mult + plan[2][2].mult <= U64Max
  => GaveDigest(1) /\ GaveDigest(2) /\ Digest(1) = Digest(2)

C2_Witness ==
  /\ mode = "additive"
  /\ Done
  /\ plan[2][1].mult > 0
  /\ plan[2][2].mult > 0
  /\ plan[2][1].mult + plan[2][2].mult <= U64Max
  /\ plan[1][1].mult = plan[2][1].mult + plan[2][2].mult
  /\ GaveDigest(1)
  /\ Digest(1) # compress(Identity)

\* C3: one add of the concatenation of the chunks finalizes to the same
\* digest as feeding the chunks one by one and committing: the digest
\* depends on the bytes fed between two commits, not on their chunking.
C3_SplitInvariance ==
  mode = "split" /\ Done =>
    GaveDigest(1) /\ GaveDigest(2) /\ Digest(1) = Digest(2)

C3_Witness ==
  /\ mode = "split"
  /\ Done
  /\ Len(plan[2]) >= 4
  /\ plan[2][1].data # <<>>
  /\ plan[2][2].data # <<>>
  /\ plan[2][1].data # plan[2][2].data
  /\ hashes[2].log[1].mult > 0
  /\ GaveDigest(2)

\* C8: the group elements of the digests of two multisets built on
\* independent instances add up to the group element of the digest of
\* their union, in which the multiplicities of common elements are summed.
C8_MergeHomomorphism ==
  mode = "merge" /\ Done =>
    /\ GaveDigest(1) /\ GaveDigest(2) /\ GaveDigest(3)
    /\ PointAdd(decompress(Digest(1)), decompress(Digest(2))) = decompress(Digest(3))
    /\ compress(PointAdd(decompress(Digest(1)), decompress(Digest(2)))) = Digest(3)

C8_Witness ==
  /\ mode = "merge"
  /\ Done
  /\ Len(hashes[1].log) = 1
  /\ Len(hashes[2].log) = 1
  /\ Len(hashes[3].log) = 1
  /\ hashes[1].log[1].mult > 0
  /\ hashes[2].log[1].mult > 0
  /\ hashes[3].log[1].mult = hashes[1].log[1].mult + hashes[2].log[1].mult
  /\ GaveDigest(3)

C7_ResetCorrectness ==
  mode = "mirror" =>
    /\ Fields(hashes[1]) = Fields(hashes[2])
    /\ hashes[1].live = hashes[2].live
    /\ finalize_into(hashes[1]).out = finalize_into(Default).out
         \/ hashes[2].out.op # "default"
    /\ hashes[1].out = hashes[2].out
         \/ hashes[2].out.op = "default"

C7_Witness ==
  /\ mode = "mirror"
  /\ hashes[1].out.op = "finalize_into_reset"
  /\ hashes[1].out.res = "digest"
  /\ hashes[1].pre.acc # Identity
  /\ hashes[2].out.op = "default"
====
